---- MODULE Spec2Model ----
(***************************************************************************)
(* Model of scripts/deploy.py: the deployment pipeline run by main()       *)
(*   GitHubBSCDeployer() -> compile_contract -> deploy_contract            *)
(*   -> verify_deployment -> verify_on_bscscan -> save_deployment_info     *)
(* The chain client, the compiler and the BSCScan HTTP API are the         *)
(* environment: every call on them picks its outcome nondeterministically. *)
(* The program is sequential; pc is the line main() has reached.           *)
(***************************************************************************)
EXTENDS Integers, Sequences, FiniteSets, TLC

VARIABLES
    pc,                  \* position of the single flow of control
    exit_code,           \* -1 while running, 0 main() returned, 1 exit(1)
    raised,              \* the exception a handler holds: main()'s, or the one of
                         \* verify_deployment while it runs ("none" if none)
    private_key,         \* self.private_key ("" when PRIVATE_KEY is unset)
    bscscan_api_key,     \* self.bscscan_api_key ("" when BSCSCAN_API_KEY is unset)
    chain_used,          \* the chain client was created and called (self.w3)
    attempt,             \* loop variable of the retry loop in progress
    calls,               \* invocations made by the retry loop in progress
    errors,              \* exceptions caught by the retry loop in progress, in order
    batch_from,          \* verify_deployment: index (1..5) of the contract call with
                         \* which the next attempt starts
    tx_hash,             \* "none" or the hash send_raw_transaction returned
    broadcasts,          \* number of send_raw_transaction calls
    mined_after,         \* receipt source: the first mined_after polls yield no receipt
    rpc_latency,         \* seconds one get_transaction_receipt call takes in this run
    elapsed,             \* time.time() - start_time
    receipt_polls,       \* number of get_transaction_receipt calls
    wait_sleeps,         \* number of time.sleep(5) calls of the wait loop
    last_poll,           \* outcome of the latest receipt poll
    tx_receipt,          \* the receipt held by deploy_contract
    outcome,             \* how the confirmation wait ended
    contract_address,    \* "none" or tx_receipt.contractAddress
    contract_info,       \* "none", "onchain" or "placeholder"
    vstate,              \* how verify_on_bscscan ended ("none" before it ends)
    submit_calls,        \* number of requests.post calls (verifysourcecode)
    submit_response,     \* result['status'] of the submission, or the exception raised
    guid,                \* "none" or the GUID of the submission
    pending_checks,      \* status source: the first pending_checks checks are not terminal
    i,                   \* loop variable of the status loop
    status_checks,       \* number of requests.get calls (checkverifystatus)
    last_status,         \* outcome of the latest status check
    verification_attempted, \* return value of verify_on_bscscan
    result_file,         \* deployment_result.json: "absent", "empty" or "complete"
    record,              \* content of deployment_result.json once complete
    prev_record,         \* what deployment_result.json held before the latest save
    save_calls,          \* number of save_deployment_info calls
    clock,               \* the latest datetime.utcnow() read
    source_file,         \* verification_source.sol: "absent" or "complete"
    ci_output            \* lines appended to $GITHUB_OUTPUT (NoOutput if none)

ctl     == <<pc, exit_code, raised>>
config  == <<private_key, bscscan_api_key, chain_used>>
retry   == <<attempt, calls, errors, batch_from>>
chain   == <<tx_hash, broadcasts, mined_after, rpc_latency>>
waiter  == <<elapsed, receipt_polls, wait_sleeps, last_poll, tx_receipt, outcome,
             contract_address>>
poller  == <<vstate, submit_calls, submit_response, guid, pending_checks, i, status_checks,
             last_status, verification_attempted>>
files   == <<result_file, record, prev_record, save_calls, clock, source_file,
             ci_output>>
vars    == <<ctl, config, retry, chain, waiter, contract_info, poller, files>>

----------------------------------------------------------------------------
(* Bounds of the environment *)
MaxK == 61        \* largest number of receipt-less polls the receipt source scripts
MaxLatency == 1   \* largest duration (s) of one receipt call
MaxJ == 13        \* largest number of non-terminal status replies the API scripts
MaxClock == 1     \* largest value of the wall clock

(* Program constants *)
MaxRetries == 3        \* max_retries (gas price)
FnMaxRetries == 3      \* max_retries (contract functions)
Timeout == 300         \* timeout = 300
PollInterval == 5      \* time.sleep(5) in the wait loop
StatusCap == 12        \* range(12)
BatchSize == 5         \* name, symbol, decimals, totalSupply, owner

(* Exceptions the chain client and the HTTP client raise *)
ErrorKinds == {"ConnectionError", "Timeout", "RpcError"}
HttpErrors == {"ConnectionError", "JSONDecodeError", "KeyError"}

NoRecord == [contract_address |-> "none", transaction_hash |-> "none",
             deployment_time |-> 0,
             contract_info |-> "none", auto_verification_attempted |-> FALSE]
\* A complete record left by an earlier run of the script.
PrevRecord == [contract_address |-> "0xPREVIOUS", transaction_hash |-> "0xPREVHASH",
               deployment_time |-> 0,
               contract_info |-> "onchain", auto_verification_attempted |-> FALSE]
NoOutput == [contract_address |-> "none", verification_attempted |-> FALSE]
NoReceipt == [present |-> FALSE, status |-> 0]
Receipt(s) == [present |-> TRUE, status |-> s]

----------------------------------------------------------------------------
(* Conditions of the code *)

KeyMissingNever(key) == FALSE
\* `if not self.private_key`
KeyMissing(key) == key = ""

ApiKeyMissingNever(key) == FALSE
\* `if not self.bscscan_api_key`
ApiKeyMissing(key) == key = ""

LastAttemptEarly(a, max) == a = max - 2
\* `if attempt == max_retries - 1`
LastAttempt(a, max) == a = max - 1

WithinTimeoutInclusive(e) == e <= Timeout
WithinTimeoutAlways(e) == TRUE
\* `while time.time() - start_time < timeout`
WithinTimeout(e) == e < Timeout

AfterPollMissResend == "send"
\* Where the wait loop goes after a poll without receipt: back to its condition
AfterPollMiss == "wait"

ReceiptPresentIfSuccess(r) == r.present /\ r.status = 1
\* `if tx_receipt`
ReceiptPresent(r) == r.present

ReceiptSucceededAlways(r) == TRUE
\* `if tx_receipt.status == 1`
ReceiptSucceeded(r) == r.status = 1

SubmissionAcceptedAlways(status) == TRUE
\* `if result['status'] == '1'`
SubmissionAccepted(status) == status = "1"

\* `if status_result['status'] == '1'`
StatusVerified(reply) == reply = "verified"

StatusPendingNever(reply) == FALSE
StatusPendingAlways(reply) == TRUE
\* `elif status_result['result'] == 'Pending in queue'`
StatusPending(reply) == reply = "pending"

BatchStartResume(failed_at) == failed_at
\* The try block of verify_deployment's loop starts over with name()
BatchStart(failed_at) == 1

AfterContinueSame(n) == n
\* `continue` in `for i in range(12)`: the loop goes on with the next i
AfterContinue(n) == n + 1

CaughtByVerifyTransportOnly(e) == e = "ConnectionError"
\* `except Exception as e` of verify_on_bscscan
CaughtByVerify(e) == e \in HttpErrors

----------------------------------------------------------------------------
\* The program's state when main() starts.
InitProgram ==
    /\ pc = "init"
    /\ exit_code = -1
    /\ raised = "none"
    /\ private_key = ""
    /\ bscscan_api_key = ""
    /\ chain_used = FALSE
    /\ attempt = 0
    /\ calls = 0
    /\ errors = <<>>
    /\ batch_from = 1
    /\ tx_hash = "none"
    /\ broadcasts = 0
    /\ mined_after = 0
    /\ rpc_latency = 0
    /\ elapsed = 0
    /\ receipt_polls = 0
    /\ wait_sleeps = 0
    /\ last_poll = "none"
    /\ tx_receipt = NoReceipt
    /\ outcome = "none"
    /\ contract_address = "none"
    /\ contract_info = "none"
    /\ vstate = "none"
    /\ submit_calls = 0
    /\ submit_response = "none"
    /\ guid = "none"
    /\ pending_checks = 0
    /\ i = 0
    /\ status_checks = 0
    /\ last_status = "none"
    /\ verification_attempted = FALSE
    /\ prev_record = NoRecord
    /\ save_calls = 0
    /\ clock = 0
    /\ ci_output = NoOutput

\* A first run: the working directory holds no output file.
Init ==
    /\ InitProgram
    /\ result_file = "absent"
    /\ record = NoRecord
    /\ source_file = "absent"

\* A re-run: the files of an earlier, completed run are in place.
InitRerun ==
    /\ InitProgram
    /\ result_file = "complete"
    /\ record = PrevRecord
    /\ source_file = "complete"

\* An exception reaches main()'s `except Exception`: traceback, exit(1).
Abort(e) ==
    /\ pc' = "done"
    /\ exit_code' = 1
    /\ raised' = e

\* __init__: read the environment, connect, read the balance.
Construct ==
    /\ pc = "init"
    /\ \E key \in {"", "0xKEY"}, api \in {"", "APIKEY"},
          net \in {"ok", "disconnected", "balance_error"} :
        /\ private_key' = key
        /\ bscscan_api_key' = api
        /\ chain_used' = ~KeyMissing(key)
        /\ IF KeyMissing(key)
              THEN Abort("ValueError")
              ELSE IF net = "disconnected" THEN Abort("ConnectionFailed")
              ELSE IF net = "balance_error" THEN Abort("ConnectionError")
              ELSE /\ pc' = "compile"
                   /\ UNCHANGED <<exit_code, raised>>
    /\ UNCHANGED <<retry, chain, waiter, contract_info, poller, files>>

\* compile_contract: the compiler either yields the interface or raises.
compile_contract ==
    /\ pc = "compile"
    /\ \E ok \in BOOLEAN :
        IF ok THEN /\ pc' = "gas_price"
                   /\ UNCHANGED <<exit_code, raised>>
              ELSE Abort("CompilationError")
    /\ UNCHANGED <<config, retry, chain, waiter, contract_info, poller, files>>

\* One iteration of the gas-price retry loop of deploy_contract.
gas_price_attempt ==
    /\ pc = "gas_price"
    /\ attempt < MaxRetries
    /\ \E res \in {"ok"} \cup ErrorKinds :
        IF res = "ok"
           THEN \* break: the loop's frame is left
                /\ pc' = "nonce"
                /\ attempt' = 0
                /\ calls' = 0
                /\ errors' = <<>>
                /\ UNCHANGED <<exit_code, raised>>
           ELSE /\ calls' = calls + 1
                /\ errors' = Append(errors, res)
                /\ IF LastAttempt(attempt, MaxRetries)
                      THEN \* raise e; re-raised by deploy_contract's handler
                           /\ Abort(res)
                           /\ UNCHANGED attempt
                      ELSE \* time.sleep(2), next attempt
                           /\ attempt' = attempt + 1
                           /\ UNCHANGED ctl
    /\ UNCHANGED batch_from
    /\ UNCHANGED <<config, chain, waiter, contract_info, poller, files>>

\* get_transaction_count: no retry.
get_nonce ==
    /\ pc = "nonce"
    /\ \E res \in {"ok"} \cup ErrorKinds :
        IF res = "ok" THEN /\ pc' = "build"
                           /\ UNCHANGED <<exit_code, raised>>
                      ELSE Abort(res)
    /\ UNCHANGED <<config, retry, chain, waiter, contract_info, poller, files>>

\* build_transaction and sign_transaction.
build_and_sign ==
    /\ pc = "build"
    /\ \E res \in {"ok"} \cup ErrorKinds :
        IF res = "ok" THEN /\ pc' = "send"
                           /\ UNCHANGED <<exit_code, raised>>
                      ELSE Abort(res)
    /\ UNCHANGED <<config, retry, chain, waiter, contract_info, poller, files>>

\* send_raw_transaction; on success the wait starts: start_time = time.time().
\* The network fixes when the transaction is mined and how slow its RPC is.
send_raw_transaction ==
    /\ pc = "send"
    /\ broadcasts' = broadcasts + 1
    /\ \E res \in {"ok"} \cup ErrorKinds :
        IF res = "ok"
           THEN /\ tx_hash' = "0xHASH"
                /\ \E k \in 0..MaxK, d \in 0..MaxLatency :
                     /\ mined_after' = k
                     /\ rpc_latency' = d
                /\ pc' = "wait"
                /\ UNCHANGED <<exit_code, raised>>
           ELSE /\ Abort(res)
                /\ UNCHANGED <<tx_hash, mined_after, rpc_latency>>
    /\ UNCHANGED <<config, retry, waiter, contract_info, poller, files>>

\* One iteration of the confirmation loop: the loop condition, the receipt
\* call, and either `break` or time.sleep(5).
wait_poll ==
    /\ pc = "wait"
    /\ WithinTimeout(elapsed)
    /\ receipt_polls' = receipt_polls + 1
    /\ \E res \in IF receipt_polls < mined_after
                     THEN {"absent", "error"}
                     ELSE {"success", "failure"} :
        /\ last_poll' = res
        /\ tx_receipt' = CASE res = "success" -> Receipt(1)
                           [] res = "failure" -> Receipt(0)
                           [] res = "absent"  -> NoReceipt
                           [] OTHER           -> tx_receipt   \* except: pass
        /\ IF res # "error" /\ ReceiptPresent(tx_receipt')
              THEN \* break
                   /\ pc' = "receipt"
                   /\ elapsed' = elapsed + rpc_latency
                   /\ UNCHANGED wait_sleeps
              ELSE \* time.sleep(5)
                   /\ pc' = AfterPollMiss
                   /\ elapsed' = elapsed + rpc_latency + PollInterval
                   /\ wait_sleeps' = wait_sleeps + 1
    /\ UNCHANGED <<exit_code, raised, outcome, contract_address>>
    /\ UNCHANGED <<config, retry, chain, contract_info, poller, files>>

\* The `else` of the while loop: the condition became false without a break.
wait_timeout ==
    /\ pc = "wait"
    /\ ~WithinTimeout(elapsed)
    /\ outcome' = "TimedOut"
    /\ Abort("TransactionTimeout")
    /\ UNCHANGED <<elapsed, receipt_polls, wait_sleeps, last_poll, tx_receipt,
                   contract_address>>
    /\ UNCHANGED <<config, retry, chain, contract_info, poller, files>>

\* `if tx_receipt.status == 1`: return the address, or raise "reverted".
check_receipt_status ==
    /\ pc = "receipt"
    /\ IF ReceiptSucceeded(tx_receipt)
          THEN /\ contract_address' = "0xCONTRACT"
               /\ outcome' = "Confirmed"
               /\ pc' = "verify_deployment"
               /\ UNCHANGED <<exit_code, raised>>
          ELSE /\ outcome' = "Reverted"
               /\ Abort("TransactionReverted")
               /\ UNCHANGED contract_address
    /\ UNCHANGED <<elapsed, receipt_polls, wait_sleeps, last_poll, tx_receipt>>
    /\ UNCHANGED <<config, retry, chain, contract_info, poller, files>>

\* One iteration of the retry loop of verify_deployment: the batch of
\* name/symbol/decimals/totalSupply/owner calls succeeds or one of them raises.
verify_deployment_attempt ==
    /\ pc = "verify_deployment"
    /\ attempt < FnMaxRetries
    /\ \E res \in {"ok"} \cup ErrorKinds :
        IF res = "ok"
           THEN \* break, print, return the values read
                /\ contract_info' = "onchain"
                /\ pc' = "verify_on_bscscan"
                /\ attempt' = 0
                /\ calls' = 0
                /\ errors' = <<>>
                /\ batch_from' = 1
                /\ UNCHANGED raised
           ELSE /\ calls' = calls + 1
                /\ errors' = Append(errors, res)
                \* the call that raised; the next pass through the try block
                /\ \E failed_at \in batch_from..BatchSize :
                     batch_from' = BatchStart(failed_at)
                /\ UNCHANGED contract_info
                /\ IF LastAttempt(attempt, FnMaxRetries)
                      THEN \* raise e, caught by the function's own handler
                           /\ pc' = "verify_deployment_except"
                           /\ raised' = res
                           /\ UNCHANGED attempt
                      ELSE \* time.sleep(3), next attempt
                           /\ attempt' = attempt + 1
                           /\ UNCHANGED <<pc, raised>>
    /\ UNCHANGED exit_code
    /\ UNCHANGED <<config, chain, waiter, poller, files>>

\* The `except Exception` of verify_deployment: return the placeholder.
verify_deployment_except ==
    /\ pc = "verify_deployment_except"
    /\ contract_info' = "placeholder"
    /\ pc' = "verify_on_bscscan"
    /\ attempt' = 0
    /\ calls' = 0
    /\ errors' = <<>>
    /\ batch_from' = 1
    /\ raised' = "none"       \* e is unbound when the handler ends
    /\ UNCHANGED exit_code
    /\ UNCHANGED <<config, chain, waiter, poller, files>>

ReturnSubmitted(state) ==
    /\ vstate' = state
    /\ verification_attempted' = (state # "NotSubmitted")
    /\ pc' = "save"
    /\ UNCHANGED <<exit_code, raised>>

\* What verify_on_bscscan does on every path that returns False.
ReturnFalse(state) ==
    /\ vstate' = state
    /\ verification_attempted' = FALSE
    /\ pc' = "save"
    /\ UNCHANGED <<exit_code, raised>>

\* Entry of verify_on_bscscan: without an API key print the manual guide and
\* return False.
verify_on_bscscan ==
    /\ pc = "verify_on_bscscan"
    /\ IF ApiKeyMissing(bscscan_api_key)
          THEN ReturnFalse("NotSubmitted")
          ELSE /\ pc' = "submit"
               /\ UNCHANGED <<exit_code, raised, vstate, verification_attempted>>
    /\ UNCHANGED <<submit_calls, submit_response, guid, pending_checks, i,
                   status_checks, last_status>>
    /\ UNCHANGED <<config, retry, chain, waiter, contract_info, files>>

\* requests.post(verifysourcecode) and the test of result['status'].
\* An accepted submission fixes how many status checks stay non-terminal.
submit_verification ==
    /\ pc = "submit"
    /\ submit_calls' = submit_calls + 1
    /\ \E res \in {"1", "0"} \cup HttpErrors :
        /\ submit_response' = res
        /\ IF res \in HttpErrors
              THEN /\ IF CaughtByVerify(res)
                         THEN ReturnFalse("Error")
                         ELSE /\ Abort(res)
                              /\ UNCHANGED <<vstate, verification_attempted>>
                   /\ UNCHANGED <<guid, pending_checks>>
              ELSE IF SubmissionAccepted(res)
                      THEN /\ guid' = "GUID"
                           /\ \E j \in 0..MaxJ : pending_checks' = j
                           /\ pc' = "status"
                           /\ UNCHANGED <<exit_code, raised, vstate,
                                          verification_attempted>>
                      ELSE /\ ReturnFalse("Failed")
                           /\ UNCHANGED <<guid, pending_checks>>
    /\ UNCHANGED <<i, status_checks, last_status>>
    /\ UNCHANGED <<config, retry, chain, waiter, contract_info, files>>

\* One iteration of `for i in range(12)`: time.sleep(5), requests.get
\* (checkverifystatus) and the classification of the reply.
check_verify_status ==
    /\ pc = "status"
    /\ i < StatusCap
    /\ status_checks' = status_checks + 1
    /\ \E reply \in IF status_checks < pending_checks
                       THEN {"pending", "error"}
                       ELSE {"verified", "failed"} :
        /\ last_status' = reply
        /\ IF reply = "error"
              THEN \* except Exception: continue
                   /\ i' = AfterContinue(i)
                   /\ UNCHANGED <<ctl, vstate, verification_attempted>>
              ELSE IF StatusVerified(reply)
                 THEN \* return True
                      /\ vstate' = "Verified"
                      /\ verification_attempted' = TRUE
                      /\ pc' = "save"
                      /\ UNCHANGED <<exit_code, raised, i>>
              ELSE IF StatusPending(reply)
                 THEN /\ i' = i + 1
                      /\ UNCHANGED <<ctl, vstate, verification_attempted>>
              ELSE \* break; line 238 is printed too; return False
                   /\ ReturnFalse("Failed")
                   /\ UNCHANGED i
    /\ UNCHANGED <<submit_calls, submit_response, guid, pending_checks>>
    /\ UNCHANGED <<config, retry, chain, waiter, contract_info, files>>

\* The for loop ran out: "taking longer than expected", return False.
status_exhausted ==
    /\ pc = "status"
    /\ ~(i < StatusCap)
    /\ ReturnFalse("TimedOut")
    /\ UNCHANGED <<submit_calls, submit_response, guid, pending_checks, i,
                   status_checks, last_status>>
    /\ UNCHANGED <<config, retry, chain, waiter, contract_info, files>>

\* save_deployment_info: build deployment_data (which reads the wall clock),
\* open deployment_result.json for writing (which truncates it).
save_open_result ==
    /\ pc = "save"
    /\ save_calls' = save_calls + 1
    /\ \E t \in clock..MaxClock : clock' = t
    /\ prev_record' = record
    /\ record' = NoRecord
    /\ result_file' = "empty"
    /\ pc' = "save_dump"
    /\ UNCHANGED <<exit_code, raised, source_file, ci_output>>
    /\ UNCHANGED <<config, retry, chain, waiter, contract_info, poller>>

\* json.dump(deployment_data) and close.
save_dump_result ==
    /\ pc = "save_dump"
    /\ result_file' = "complete"
    /\ record' = [contract_address |-> contract_address,
                  transaction_hash |-> tx_hash,
                  deployment_time |-> clock,
                  contract_info |-> contract_info,
                  auto_verification_attempted |-> verification_attempted]
    /\ pc' = "save_source"
    /\ UNCHANGED <<exit_code, raised, prev_record, save_calls, clock, source_file,
                   ci_output>>
    /\ UNCHANGED <<config, retry, chain, waiter, contract_info, poller>>

\* Write verification_source.sol; save_deployment_info returns.
save_source ==
    /\ pc = "save_source"
    /\ source_file' = "complete"
    /\ pc' = "outputs"
    /\ UNCHANGED <<exit_code, raised, result_file, record, prev_record, save_calls,
                   clock, ci_output>>
    /\ UNCHANGED <<config, retry, chain, waiter, contract_info, poller>>

\* The GitHub Actions outputs, when $GITHUB_ACTIONS and $GITHUB_OUTPUT are
\* set, then main() returns.
write_outputs ==
    /\ pc = "outputs"
    /\ \E ci \in BOOLEAN :
        ci_output' = IF ci THEN [contract_address |-> contract_address,
                                 verification_attempted |-> verification_attempted]
                           ELSE ci_output
    /\ pc' = "done"
    /\ exit_code' = 0
    /\ UNCHANGED <<raised, result_file, record, prev_record, save_calls, clock,
                   source_file>>
    /\ UNCHANGED <<config, retry, chain, waiter, contract_info, poller>>

Next ==
    \/ Construct
    \/ compile_contract
    \/ gas_price_attempt
    \/ get_nonce
    \/ build_and_sign
    \/ send_raw_transaction
    \/ wait_poll
    \/ wait_timeout
    \/ check_receipt_status
    \/ verify_deployment_attempt
    \/ verify_deployment_except
    \/ verify_on_bscscan
    \/ submit_verification
    \/ check_verify_status
    \/ status_exhausted
    \/ save_open_result
    \/ save_dump_result
    \/ save_source
    \/ write_outputs

Spec == Init /\ [][Next]_vars

\* The process is killed while save_deployment_info runs. A kill during
\* json.dump leaves whatever part of the document was flushed; a kill during
\* the write of the source file may leave it truncated.
Crash ==
    /\ pc \in {"save", "save_dump", "save_source"}
    /\ pc' = "crashed"
    /\ exit_code' = 137
    /\ result_file' \in IF pc = "save_dump" THEN {"empty", "partial"}
                                            ELSE {result_file}
    /\ source_file' \in IF pc = "save_source" THEN {source_file, "empty"}
                                              ELSE {source_file}
    /\ UNCHANGED <<raised, record, prev_record, save_calls, clock, ci_output>>
    /\ UNCHANGED <<config, retry, chain, waiter, contract_info, poller>>

\* Runs, first runs and re-runs, that may be killed during the save.
SpecCrash == (Init \/ InitRerun) /\ [][Next \/ Crash]_vars

\* The caller persists once more with the same arguments.
save_again ==
    /\ pc = "outputs"
    /\ save_calls < 2
    /\ pc' = "save"
    /\ UNCHANGED <<exit_code, raised, files>>
    /\ UNCHANGED <<config, retry, chain, waiter, contract_info, poller>>

\* Runs in which save_deployment_info is called a second time.
SpecResave == Init /\ [][Next \/ save_again]_vars

----------------------------------------------------------------------------
(* Properties *)

\* C1: every run that obtained a transaction hash from the broadcast ends
\* with a deployment record persisted, whatever happened afterwards
\* (confirmation timeout, revert, verification failure).
C1_RecordAfterBroadcast ==
    (pc = "done" /\ tx_hash # "none") => result_file = "complete"

\* The verification step has started (or is being entered).
VerificationStarted ==
    \/ pc \in {"verify_on_bscscan", "submit", "status"}
    \/ vstate # "none"
    \/ submit_calls > 0
    \/ status_checks > 0

\* C2: verification has started only if the confirmation wait ended with a
\* success receipt carrying a contract address; after a revert or a timeout
\* no verification call is ever made.
C2_VerifyOnlyAfterSuccess ==
    /\ VerificationStarted =>
          /\ outcome = "Confirmed"
          /\ tx_receipt = Receipt(1)
          /\ contract_address # "none"
    /\ outcome \in {"Reverted", "TimedOut"} =>
          /\ ~VerificationStarted
          /\ submit_calls = 0
          /\ status_checks = 0

C2_Witness ==
    /\ status_checks > 0
    /\ tx_receipt = Receipt(1)
    /\ outcome = "Confirmed"

\* The mined_after receipt-less polls, each followed by the poll-interval
\* sleep, fit within the timeout.
Fits == mined_after * (rpc_latency + PollInterval) < Timeout

\* Time at which the latest receipt poll was started: every earlier poll
\* was followed by a sleep.
LastPollStart == (receipt_polls - 1) * (rpc_latency + PollInterval)

\* C3: with a receipt source that yields no receipt for the first k polls
\* and then a success receipt: if the k polls fit within the timeout the
\* outcome is Confirmed after exactly k+1 polls; otherwise it is TimedOut,
\* and no poll is ever started once the elapsed time has reached the timeout.
C3_ConfirmationWait ==
    /\ (outcome # "none" /\ last_poll # "failure") =>
          IF Fits
             THEN outcome = "Confirmed" /\ receipt_polls = mined_after + 1
             ELSE /\ outcome = "TimedOut"
                  /\ receipt_polls <= mined_after
                  /\ elapsed >= Timeout
    /\ receipt_polls > 0 => LastPollStart < Timeout

C3_Witness ==
    /\ outcome = "Confirmed"
    /\ rpc_latency = 0
    /\ mined_after = 59
    /\ receipt_polls = 60

\* C4: a poll that returns a receipt with failure status ends the wait at
\* once with the Reverted outcome: that poll is the last one, and no sleep
\* follows it.
C4_RevertImmediate ==
    last_poll = "failure" =>
        /\ pc \in {"receipt", "done"}
        /\ pc = "done" => outcome = "Reverted"
        /\ receipt_polls = mined_after + 1
        /\ wait_sleeps = mined_after

C4_Witness ==
    /\ outcome = "Reverted"
    /\ mined_after = 2
    /\ receipt_polls = 3
    /\ wait_sleeps = 2

\* The classification of spec section 7: a permanent RpcError is fatal, the
\* network errors are retryable.
Fatal(e) == e = "RpcError"

AllRetryable(es) == \A n \in 1..Len(es) : ~Fatal(es[n])

\* A retry loop has ended by raising: the gas-price loop (the run is over
\* and the caught exceptions are kept) or the contract-function loop (its
\* exception is in verify_deployment's handler).
RetryLoopFailed ==
    \/ pc = "done" /\ errors # <<>>
    \/ pc = "verify_deployment_except"

\* C5: with max_attempts = 3 (gas-price fetch, contract-function calls) an
\* operation that fails retryably on every attempt is invoked exactly 3
\* times and the loop ends with the failure carrying the last error; no
\* retry loop ever makes more than 3 invocations.
C5_RetryExhausted ==
    /\ calls <= MaxRetries
    /\ (RetryLoopFailed /\ AllRetryable(errors)) =>
          /\ calls = MaxRetries
          /\ Len(errors) = MaxRetries
          /\ raised = errors[Len(errors)]
          /\ contract_info # "onchain"
          /\ pc = "done" => exit_code = 1 /\ tx_hash = "none"

C5_Witness ==
    /\ pc = "done"
    /\ errors = <<"Timeout", "Timeout", "ConnectionError">>
    /\ raised = "ConnectionError"
    /\ calls = 3

\* C6: a failure classified as fatal (a permanent RpcError) aborts the
\* retry loop at once: an operation that fails fatally on its first call is
\* invoked exactly once.
C6_FatalAbortsRetry ==
    (errors # <<>> /\ Fatal(errors[1])) => calls = 1

\* C7: after a successful submission, j < cap non-terminal status replies
\* followed by a verified reply end the poller Verified after exactly j+1
\* status checks; non-terminal replies for all of the cap (12) status
\* checks end it TimedOut after exactly cap checks.
C7_StatusPolling ==
    (guid # "none" /\ vstate # "none" /\ last_status # "failed") =>
        IF pending_checks < StatusCap
           THEN /\ vstate = "Verified"
                /\ status_checks = pending_checks + 1
                /\ verification_attempted
           ELSE /\ vstate = "TimedOut"
                /\ status_checks = StatusCap
                /\ ~verification_attempted

C7_Witness ==
    /\ vstate = "Verified"
    /\ pending_checks = 11
    /\ status_checks = 12

\* C8: with an API key the submission request is sent at most once per run;
\* a non-success submission response ends the poller Failed with zero status
\* checks, and no status check is issued without a GUID.
C8_SubmitOnce ==
    /\ submit_calls <= 1
    /\ submit_response = "0" =>
          /\ vstate = "Failed"
          /\ guid = "none"
          /\ status_checks = 0
          /\ pc \notin {"submit", "status"}
    /\ status_checks > 0 => guid # "none" /\ submit_response = "1"

C8_Witness ==
    /\ submit_response = "0"
    /\ vstate = "Failed"
    /\ pc = "done"
    /\ submit_calls = 1

\* verify_on_bscscan has returned.
VerificationReturned == pc \in {"save", "save_dump", "save_source", "outputs"}
                        \/ (pc = "done" /\ exit_code = 0)

\* C9: without an API key the verification step returns at once in state
\* NotSubmitted and makes no HTTP call in the whole run.
C9_NoKeyNoHttp ==
    bscscan_api_key = "" =>
        /\ submit_calls = 0
        /\ status_checks = 0
        /\ pc \notin {"submit", "status"}
        /\ VerificationReturned =>
              vstate = "NotSubmitted" /\ ~verification_attempted

C9_Witness ==
    /\ pc = "done"
    /\ bscscan_api_key = ""
    /\ vstate = "NotSubmitted"
    /\ submit_calls = 0

\* C10: once confirmation has succeeded no outcome of the verification step
\* aborts the run: the run goes on until the record is persisted and ends
\* with exit code 0.
C10_VerificationNeverAborts ==
    outcome = "Confirmed" =>
        /\ exit_code # 1
        /\ pc # "done" => ENABLED Next
        /\ pc = "done" =>
              /\ exit_code = 0
              /\ vstate # "none"
              /\ result_file = "complete"
              /\ record.contract_address = contract_address

C10_Witness ==
    /\ pc = "done"
    /\ vstate = "Error"
    /\ submit_response = "KeyError"
    /\ exit_code = 0
    /\ result_file = "complete"

\* C11: deployment_result.json is written by atomic replace: whenever the
\* process is killed during save_deployment_info the file is the complete
\* previous record (or absent) or the complete new record, never empty or
\* half-written.
C11_AtomicReplace ==
    pc = "crashed" =>
        \/ result_file = "absent"
        \/ result_file = "complete" /\ record # NoRecord

\* C12: persisting is idempotent: a second save_deployment_info call with the
\* same arguments stores exactly what the first one stored, however much
\* time passed in between.
C12_SaveIdempotent ==
    (save_calls = 2 /\ result_file = "complete") => record = prev_record

\* C13: with the signer key missing the pipeline never starts: the
\* constructor raises before any chain-client call, compilation, broadcast,
\* verification request or file write, nothing is retried, and the process
\* exits non-zero.
C13_NoKeyNoPipeline ==
    (private_key = "" /\ pc # "init") =>
        /\ pc = "done"
        /\ exit_code = 1
        /\ raised = "ValueError"
        /\ ~chain_used
        /\ calls = 0 /\ attempt = 0 /\ errors = <<>>
        /\ broadcasts = 0 /\ tx_hash = "none"
        /\ receipt_polls = 0
        /\ contract_info = "none"
        /\ submit_calls = 0 /\ status_checks = 0
        /\ save_calls = 0
        /\ result_file = "absent" /\ source_file = "absent"
        /\ ci_output = NoOutput

C13_Witness ==
    /\ private_key = ""
    /\ pc = "done"
    /\ exit_code = 1
    /\ raised = "ValueError"

\* C14: a transport error on a status check uses up one attempt of the same
\* cap as a pending reply: whatever the mix of pending replies and errors,
\* no run makes more than the cap (12) of status checks, and after an error
\* polling goes on while attempts remain.
C14_ErrorCountsTowardCap ==
    /\ status_checks <= StatusCap
    /\ last_status \in {"error", "pending"} =>
          /\ i = status_checks
          /\ i < StatusCap => pc = "status"
          /\ i >= StatusCap =>
                \/ pc = "status"
                \/ vstate = "TimedOut" /\ status_checks = StatusCap

C14_Witness ==
    /\ last_status = "error"
    /\ vstate = "TimedOut"
    /\ status_checks = 12
    /\ pending_checks = 13

\* C15: a status reply that is neither success nor the pending message is a
\* terminal failure: the poller ends Failed and makes no further status
\* check, even with attempts left; among the replies only the pending
\* message keeps the polling going.
C15_TerminalFailure ==
    /\ last_status = "failed" =>
          /\ vstate = "Failed"
          /\ pc # "status"
          /\ ~verification_attempted
          /\ status_checks = pending_checks + 1
    /\ (pc = "status" /\ status_checks > 0) => last_status \in {"pending", "error"}

C15_Witness ==
    /\ last_status = "failed"
    /\ vstate = "Failed"
    /\ status_checks = 3
    /\ pc = "done"

\* C16: a receipt fetch that raises is not handled as "no receipt": the
\* bounded retry mechanism takes the failure up (it counts the invocation
\* and holds the error), which tells it from an absent-receipt poll.
C16_FetchErrorRetried ==
    last_poll = "error" => (calls > 0 /\ errors # <<>>)

\* C17: the transaction is broadcast at most once: nonce and gas price are
\* obtained before send_raw_transaction, and from the broadcast on (wait,
\* receipt errors, timeout, revert and everything after) the program never
\* fetches them again and never sends again.
C17_BroadcastOnce ==
    /\ broadcasts <= 1
    /\ pc \in {"gas_price", "nonce", "build", "send"} =>
          broadcasts = 0 /\ tx_hash = "none" /\ receipt_polls = 0
    /\ tx_hash # "none" => broadcasts = 1
    /\ pc \in {"wait", "receipt"} => (calls = 0 /\ attempt = 0 /\ errors = <<>>)
    /\ receipt_polls > 0 => tx_hash # "none"

C17_Witness ==
    /\ last_poll = "error"
    /\ pc = "done"
    /\ outcome = "TimedOut"
    /\ broadcasts = 1

\* C18: the confirmation wait always terminates: each iteration makes one
\* poll and at most Timeout / PollInterval of them can happen, it ends in
\* exactly one of Confirmed, Reverted and TimedOut, and an exception of the
\* receipt fetch neither leaves the loop nor ends the wait before the
\* timeout.
C18_WaitTerminates ==
    /\ receipt_polls <= Timeout \div PollInterval
    /\ elapsed = receipt_polls * rpc_latency + wait_sleeps * PollInterval
    /\ pc \in {"wait", "receipt"} => (ENABLED Next /\ outcome = "none")
    /\ (tx_hash # "none" /\ pc \notin {"wait", "receipt"}) =>
          outcome \in {"Confirmed", "Reverted", "TimedOut"}
    /\ outcome = "TimedOut" => (elapsed >= Timeout /\ ~tx_receipt.present)
    /\ outcome = "Confirmed" => tx_receipt = Receipt(1)
    /\ outcome = "Reverted" => tx_receipt = Receipt(0)
    /\ last_poll = "error" =>
          /\ raised \in {"none", "TransactionTimeout"}
          /\ pc = "wait" \/ (outcome = "TimedOut" /\ elapsed >= Timeout)

C18_Witness ==
    /\ last_poll = "error"
    /\ outcome = "TimedOut"
    /\ receipt_polls = 60
    /\ rpc_latency = 0

\* C19: the value persisted as auto_verification_attempted, and written to
\* the CI output as verification_attempted, is true exactly when a status
\* check returned terminal success; it is false after a terminal failure,
\* cap exhaustion, a submission failure or a transport error, as it is
\* without an API key.
C19_AttemptedMeansVerified ==
    /\ verification_attempted <=> last_status = "verified"
    /\ vstate \in {"NotSubmitted", "Failed", "TimedOut", "Error"} =>
          ~verification_attempted
    /\ (save_calls > 0 /\ result_file = "complete") =>
          (record.auto_verification_attempted <=> last_status = "verified")
    /\ ci_output # NoOutput =>
          (ci_output.verification_attempted <=> last_status = "verified")

C19_Witness ==
    /\ pc = "done"
    /\ vstate = "TimedOut"
    /\ guid # "none"
    /\ result_file = "complete"
    /\ ~record.auto_verification_attempted
    /\ ci_output # NoOutput
    /\ ~ci_output.verification_attempted

\* C20: a failure of the read-only contract calls never aborts the run:
\* when all 3 attempts fail, each one starting the batch again with its
\* first call, verify_deployment returns the placeholder info and the run
\* goes on to the verification step and to persistence, with the
\* placeholder in the record.
C20_PlaceholderOnFailure ==
    /\ pc \in {"verify_deployment", "verify_deployment_except"} =>
          /\ batch_from = 1
          /\ exit_code = -1
          /\ ENABLED Next
    /\ pc = "verify_deployment_except" =>
          (calls = FnMaxRetries /\ Len(errors) = FnMaxRetries)
    /\ contract_info = "placeholder" =>
          /\ exit_code # 1
          /\ pc \in {"verify_on_bscscan", "submit", "status", "save", "save_dump",
                      "save_source", "outputs", "done"}
          /\ pc = "done" =>
                /\ exit_code = 0
                /\ vstate # "none"
                /\ result_file = "complete"
                /\ record.contract_info = "placeholder"

C20_Witness ==
    /\ pc = "done"
    /\ exit_code = 0
    /\ contract_info = "placeholder"
    /\ record.contract_info = "placeholder"
    /\ vstate = "Verified"
====
